---------------------------- MODULE Spec2Model ----------------------------
(***************************************************************************)
(* A model of pyPPI's feature computation engine                           *)
(* (pyppi/data_mining/features.py): the annotation parser _split_string    *)
(* and the feature assembler compute_interaction_features, together with   *)
(* the ontology collaborators it imports (get_active_instance,             *)
(* get_up_to_lca, group_terms_by_ontology_type), whose code is not part    *)
(* of the source tree and is modelled from the specification.              *)
(*                                                                         *)
(* A Python str is a sequence of one-character strings; Python's None is   *)
(* the value None below; a protein, a term store and an exception are      *)
(* named by a string.                                                      *)
(***************************************************************************)
EXTENDS Integers, Sequences, FiniteSets, TLC

VARIABLES
    raw,        \* parser harness: the value handed to _split_string
    sep,        \* parser harness: the separator handed to _split_string
    parsed,     \* parser harness: what _split_string returned (Pending before)
    terms_a,    \* inducer harness: the first list handed to get_up_to_lca
    terms_b,    \* inducer harness: the second list handed to get_up_to_lca
    induced,    \* inducer harness: what get_up_to_lca returned (NotRun before)
    backing,    \* the ontology file the process-wide store is built from, or "Missing"
    active,     \* ontology's process-wide store: "NotLoaded", or the store's name
    DAG,        \* features.DAG, the module-level name of features.py (line 12)
    frame,      \* frame[w]: the locals of worker w's call of compute_interaction_features
    memo        \* an earlier finished call, kept to compare a later one against

vars == <<raw, sep, parsed, terms_a, terms_b, induced, backing, active, DAG, frame, memo>>

parserVars == <<raw, sep, parsed>>
inducerVars == <<terms_a, terms_b, induced>>
processVars == <<backing, active, DAG, frame, memo>>

(***************************************************************************)
(* Python values                                                           *)
(***************************************************************************)

\* A character is a one-character string; a code point outside ASCII, which
\* a string here cannot hold, is written as its Python escape ("\\xa0").
\* Python's None where a str is expected: no str is this sequence, since
\* "None" is neither.
None == <<"None">>

\* The 29 code points str.strip() removes (those str.isspace() holds of).
\* The second line holds, as themselves, the controls U+000B (vertical
\* tab) and U+001C to U+001F (file, group, record and unit separator).
Whitespace ==
    {" ", "\t", "\n", "\r", "\f",
     "", "", "", "", "",
     "\\x85", "\\xa0", "\\u1680",
     "\\u2000", "\\u2001", "\\u2002", "\\u2003", "\\u2004", "\\u2005",
     "\\u2006", "\\u2007", "\\u2008", "\\u2009", "\\u200a",
     "\\u2028", "\\u2029", "\\u202f", "\\u205f", "\\u3000"}

\* The smallest i with s[i..] starting with sub, or 0: str.find, 1-based.
Find(s, sub) ==
    LET hits == {i \in 1..(Len(s) - Len(sub) + 1) :
                    SubSeq(s, i, i + Len(sub) - 1) = sub}
    IN IF hits = {} THEN 0 ELSE CHOOSE i \in hits : \A j \in hits : i <= j

\* str.split(sep) for a non-empty sep: cut at each leftmost occurrence.
RECURSIVE PySplit(_, _)
PySplit(s, sp) ==
    LET i == Find(s, sp)
    IN IF i = 0
       THEN <<s>>
       ELSE <<SubSeq(s, 1, i - 1)>> \o PySplit(SubSeq(s, i + Len(sp), Len(s)), sp)

\* str.strip(): drop the leading and the trailing run of whitespace.
PyStrip(s) ==
    LET keep == {i \in 1..Len(s) : s[i] \notin Whitespace}
    IN IF keep = {}
       THEN <<>>
       ELSE LET lo == CHOOSE i \in keep : \A j \in keep : i <= j
                hi == CHOOSE i \in keep : \A j \in keep : j <= i
            IN SubSeq(s, lo, hi)

\* The result of _split_string: Python's None, or a list of tokens.
NoneList == [none |-> TRUE, list |-> <<>>]
SomeList(l) == [none |-> FALSE, list |-> l]

NonEmpty(t) == t # <<>>

\* [v.strip() for v in pieces if v.strip()]
StripAll(pieces) ==
    LET stripped == [i \in 1..Len(pieces) |-> PyStrip(pieces[i])]
    IN SelectSeq(stripped, NonEmpty)

\* A plausible slip: "if value is not None" in place of "if value".
_split_string_not_none(value, sp) ==
    IF value # None
    THEN SomeList(StripAll(PySplit(value, sp)))
    ELSE NoneList

\* features.py, _split_string: falsy (None or "") gives None.
_split_string(value, sp) ==
    IF value # None /\ value # <<>>
    THEN SomeList(StripAll(PySplit(value, sp)))
    ELSE NoneList

(***************************************************************************)
(* The Term Store (pyppi/data_mining/ontology.py, not in the source tree): *)
(* a dict from accession to term; a term has its canonical id, its         *)
(* ontology type and the ids of its is_a / part_of parents.                *)
(***************************************************************************)

Term(id, type, parents) == [id |-> id, ontology_type |-> type, parents |-> parents]

\* The process-wide store. "k" is an alternate accession of "a"; "d" is a
\* cellular component that is part_of the molecular function "a".
StoreS ==
    (<<"r">> :> Term(<<"r">>, "mf", {})) @@
    (<<"a">> :> Term(<<"a">>, "mf", {<<"r">>})) @@
    (<<"b">> :> Term(<<"b">>, "mf", {<<"r">>})) @@
    (<<"k">> :> Term(<<"a">>, "mf", {<<"r">>})) @@
    (<<"p">> :> Term(<<"p">>, "mf", {})) @@
    (<<"c">> :> Term(<<"c">>, "bp", {})) @@
    (<<"d">> :> Term(<<"d">>, "cc", {<<"a">>}))

\* A store a caller builds and passes in: a flat ontology in which "r" is an
\* alternate accession of "p".
StoreE ==
    (<<"a">> :> Term(<<"a">>, "mf", {})) @@
    (<<"b">> :> Term(<<"b">>, "mf", {})) @@
    (<<"p">> :> Term(<<"p">>, "mf", {})) @@
    (<<"r">> :> Term(<<"p">>, "mf", {}))

StoreNames == {"S", "E"}
TermStore(name) == IF name = "S" THEN StoreS ELSE StoreE

\* The order in which a traversal lists the accessions it discovers.
TraversalOrder == << <<"a">>, <<"b">>, <<"c">>, <<"d">>, <<"k">>, <<"p">>, <<"r">> >>

\* What a call that can raise gives back: the value, or the exception's name.
Ok(v) == [exc |-> "", value |-> v]
Raise(e) == [exc |-> e, value |-> <<>>]

\* ontology.get_active_instance: the lazily built process-wide singleton.
\* Building it reads the ontology file and fails when there is none.
get_active_instance(act, back) ==
    IF act # "NotLoaded"
    THEN [exc |-> "", value |-> act, active |-> act]
    ELSE IF back = "Missing"
         THEN [exc |-> "StoreError", value |-> "None", active |-> act]
         ELSE [exc |-> "", value |-> back, active |-> back]

\* dag[tid] for every tid of ids: a KeyError for an accession the dict lacks.
AllKnown(store, ids) == \A i \in 1..Len(ids) : ids[i] \in DOMAIN store

\* Every ancestor of term t, t included (the store's graph is acyclic).
RECURSIVE Ancestors(_, _)
Ancestors(store, t) ==
    {t} \cup UNION {Ancestors(store, q) : q \in store[t].parents}

\* A slip: every common ancestor taken for a least one.
AllCommon(store, ta, tb) ==
    Ancestors(store, ta) \cap Ancestors(store, tb)

\* The lowest common ancestors of ta and tb: the common ancestors with no
\* strict descendant among the common ancestors.
LowestCommon(store, ta, tb) ==
    LET common == Ancestors(store, ta) \cap Ancestors(store, tb)
    IN {c \in common : \A c2 \in common \ {c} : c \notin Ancestors(store, c2)}

\* The terms on some path from t up to its ancestor c.
PathUp(store, t, c) == {u \in Ancestors(store, t) : c \in Ancestors(store, u)}

Range(s) == {s[i] : i \in 1..Len(s)}

\* The up-to-LCA induction of two lists of accessions over one store.
InducedSet(store, ids_a, ids_b) ==
    LET A == {store[t].id : t \in Range(ids_a)}
        B == {store[t].id : t \in Range(ids_b)}
    IN UNION {PathUp(store, ta, c) \cup PathUp(store, tb, c) \cup {c} :
                <<ta, tb, c>> \in {x \in A \X B \X DOMAIN store :
                                     x[3] \in LowestCommon(store, x[1], x[2])}}

\* ontology.get_up_to_lca(source_ids, target_ids), over the store handed in.
get_up_to_lca(store, ids_a, ids_b) ==
    IF ~(AllKnown(store, ids_a) /\ AllKnown(store, ids_b))
    THEN Raise("KeyError")
    ELSE LET S == InducedSet(store, ids_a, ids_b)
         IN Ok(SelectSeq(TraversalOrder, LAMBDA t : t \in S))

\* How often x occurs in the first n entries of s.
CountIn(s, n, x) == Cardinality({i \in 1..n : s[i] = x})

\* The occurrences of s that are among the first max_count of their accession.
Capped(s, max_count) ==
    LET keep == {i \in 1..Len(s) : CountIn(s, i - 1, s[i]) < max_count}
        F[i \in 0..Len(s)] ==
            IF i = 0 THEN <<>>
            ELSE IF i \in keep THEN Append(F[i - 1], s[i]) ELSE F[i - 1]
    IN F[Len(s)]

OfType(store, s, type) ==
    SelectSeq(s, LAMBDA t : store[t].ontology_type = type)

\* ontology.group_terms_by_ontology_type(terms, max_count), over the store
\* handed in: the three keys mf, bp, cc, each list capped per accession.
group_terms_by_ontology_type(store, terms, max_count) ==
    IF ~AllKnown(store, terms)
    THEN Raise("KeyError")
    ELSE Ok([mf |-> Capped(OfType(store, terms, "mf"), max_count),
             bp |-> Capped(OfType(store, terms, "bp"), max_count),
             cc |-> Capped(OfType(store, terms, "cc"), max_count)])

(***************************************************************************)
(* Protein annotation records: six str-or-None attributes each.            *)
(***************************************************************************)

Protein(mf, bp, cc, ipr, pf, kw) ==
    [go_mf |-> mf, go_bp |-> bp, go_cc |-> cc,
     interpro |-> ipr, pfam |-> pf, keywords |-> kw]

\* "PE" has every field None or "" and "PN" every field None; "PK" uses the
\* alternate accession "k" and repeats "a"; "PZ1".."PZ3" each hold the
\* accession "z" that no store knows, in go_mf, go_bp and go_cc.
ProteinNames == {"PE", "PN", "PA", "PB", "PK", "PZ1", "PZ2", "PZ3"}

ProteinOf(name) ==
    CASE name = "PE" -> Protein(None, <<>>, None, <<>>, None, <<>>)
      [] name = "PN" -> Protein(None, None, None, None, None, None)
      [] name = "PA" -> Protein(<<"a">>, <<"p">>, <<"p">>, <<"i", ",", "i">>,
                                <<" ", "j", " ", ",", " ", ",", "i", ",", " ">>, None)
      [] name = "PB" -> Protein(<<"b">>, <<"p">>, <<"p">>, <<>>, <<"j">>, <<" ", ",", " ">>)
      [] name = "PK" -> Protein(<<"k", ",", " ", "a">>, <<"a">>, <<"a", ",", "d">>,
                                <<"i">>, None, <<"w">>)
      [] name = "PZ1" -> Protein(<<"a", ",", "z">>, <<"c">>, None, None, None, None)
      [] name = "PZ2" -> Protein(<<"a">>, <<"z">>, <<"d">>, None, <<"j">>, None)
      [] name = "PZ3" -> Protein(None, <<>>, <<" ", "z">>, <<"i">>, None, None)

GoFields == {"go_mf", "go_bp", "go_cc"}
RawFields == {"go_mf", "go_bp", "go_cc", "interpro", "pfam", "keywords"}
FeatureNames == RawFields \cup {"ulca_go_mf", "ulca_go_bp", "ulca_go_cc"}

(***************************************************************************)
(* compute_interaction_features(source, target, dag=None), statement by    *)
(* statement.  A frame holds the call's arguments and locals; env holds    *)
(* the state the call shares with every other call.                        *)
(***************************************************************************)

\* x = _split_string(v); x = x if x is not None else []
ParseField(v) ==
    LET x == _split_string(v, <<",">>)
    IN IF x.none THEN <<>> ELSE x.list

\* [dag[tid].id for tid in ids], for ids the store knows.
Ids(store, ids) == [i \in 1..Len(ids) |-> store[ids[i]].id]

NoLists == [f \in RawFields |-> <<>>]
NoGroups == [mf |-> <<>>, bp |-> <<>>, cc |-> <<>>]
Result(kind, features) == [kind |-> kind, features |-> features]

IdleFrame ==
    [pc |-> "idle", source |-> "None", target |-> "None", dagArg |-> "None",
     dag |-> "None", src |-> NoLists, tgt |-> NoLists, terms |-> <<>>,
     ulca |-> NoGroups, consulted |-> FALSE, result |-> Result("pending", <<>>)]

NewFrame(source, target, dag) ==
    [IdleFrame EXCEPT !.pc = "acquire", !.source = source, !.target = target,
                      !.dagArg = dag]

Env(act, back, cache) == [active |-> act, backing |-> back, DAG |-> cache]

Finish(f, kind, features) ==
    [f EXCEPT !.pc = "done", !.result = Result(kind, features)]

\* A slip: a store passed in is kept in the module-level name DAG and
\* becomes the default of the calls that pass none.
StepAcquireCached(f, e) ==
    IF f.dagArg # "None"
    THEN [f |-> [f EXCEPT !.dag = f.dagArg, !.pc = "check"],
          e |-> [e EXCEPT !.DAG = f.dagArg]]
    ELSE IF e.DAG # "None"
    THEN [f |-> [f EXCEPT !.dag = e.DAG, !.pc = "check"], e |-> e]
    ELSE LET g == get_active_instance(e.active, e.backing)
         IN [f |-> IF g.exc # ""
                   THEN [Finish(f, g.exc, <<>>) EXCEPT !.consulted = TRUE]
                   ELSE [f EXCEPT !.dag = g.value, !.pc = "check", !.consulted = TRUE],
             e |-> [e EXCEPT !.active = g.active]]

\* Lines 56-57: if dag is None: dag = get_active_instance()
StepAcquire(f, e) ==
    IF f.dagArg # "None"
    THEN [f |-> [f EXCEPT !.dag = f.dagArg, !.pc = "check"], e |-> e]
    ELSE LET g == get_active_instance(e.active, e.backing)
         IN [f |-> IF g.exc # ""
                   THEN [Finish(f, g.exc, <<>>) EXCEPT !.consulted = TRUE]
                   ELSE [f EXCEPT !.dag = g.value, !.pc = "check", !.consulted = TRUE],
             e |-> [e EXCEPT !.active = g.active]]

\* Lines 59-60: if source is None or target is None: return None
StepCheck(f, e) ==
    [f |-> IF f.source = "None" \/ f.target = "None"
           THEN Finish(f, "None", <<>>)
           ELSE [f EXCEPT !.pc = "parse"],
     e |-> e]

\* A slip: an accession the store lacks is skipped instead of looked up.
ParseSideSkipping(store, p) ==
    LET lists == [fld \in RawFields |-> ParseField(p[fld])]
    IN Ok([fld \in RawFields |->
             IF fld \in GoFields
             THEN Ids(store, SelectSeq(lists[fld], LAMBDA t : t \in DOMAIN store))
             ELSE lists[fld]])

\* Lines 63-82 (source) and 85-104 (target): the six fields of one protein
\* parsed, the three GO lists mapped to canonical ids through dag.
ParseSide(store, p) ==
    LET lists == [fld \in RawFields |-> ParseField(p[fld])]
    IN IF \E fld \in GoFields : ~AllKnown(store, lists[fld])
       THEN Raise("KeyError")
       ELSE Ok([fld \in RawFields |->
                  IF fld \in GoFields THEN Ids(store, lists[fld]) ELSE lists[fld]])

\* Lines 63-104.
StepParse(f, e) ==
    LET store == TermStore(f.dag)
        s == ParseSide(store, ProteinOf(f.source))
        t == ParseSide(store, ProteinOf(f.target))
    IN [f |-> IF s.exc # "" THEN Finish(f, s.exc, <<>>)
              ELSE IF t.exc # "" THEN Finish(f, t.exc, <<>>)
              ELSE [f EXCEPT !.src = s.value, !.tgt = t.value, !.pc = "induce"],
        e |-> e]

\* Lines 107-109: the three inductions, concatenated.  No dag is passed, so
\* get_up_to_lca works over the process-wide store.
StepInduce(f, e) ==
    LET g == get_active_instance(e.active, e.backing)
        store == TermStore(g.value)
        mf == get_up_to_lca(store, f.src.go_mf, f.tgt.go_mf)
        bp == get_up_to_lca(store, f.src.go_bp, f.tgt.go_bp)
        cc == get_up_to_lca(store, f.src.go_cc, f.tgt.go_cc)
        c == [f EXCEPT !.consulted = TRUE]
    IN [f |-> IF g.exc # "" THEN Finish(c, g.exc, <<>>)
              ELSE IF mf.exc # "" THEN Finish(c, mf.exc, <<>>)
              ELSE IF bp.exc # "" THEN Finish(c, bp.exc, <<>>)
              ELSE IF cc.exc # "" THEN Finish(c, cc.exc, <<>>)
              ELSE [c EXCEPT !.terms = mf.value \o bp.value \o cc.value,
                             !.pc = "regroup"],
        e |-> [e EXCEPT !.active = g.active]]

\* Lines 115-118: the regrouping (no dag passed either), max_count=2, then
\* the survivors mapped to canonical ids through dag.
StepRegroup(f, e) ==
    LET g == get_active_instance(e.active, e.backing)
        grouped == group_terms_by_ontology_type(TermStore(g.value), f.terms, 2)
        dag == TermStore(f.dag)
        c == [f EXCEPT !.consulted = TRUE]
    IN [f |-> IF g.exc # "" THEN Finish(c, g.exc, <<>>)
              ELSE IF grouped.exc # "" THEN Finish(c, grouped.exc, <<>>)
              ELSE IF \E ty \in {"mf", "bp", "cc"} : ~AllKnown(dag, grouped.value[ty])
              THEN Finish(c, "KeyError", <<>>)
              ELSE [c EXCEPT !.ulca = [ty \in {"mf", "bp", "cc"} |->
                                          Ids(dag, grouped.value[ty])],
                             !.pc = "assemble"],
        e |-> [e EXCEPT !.active = g.active]]

\* A slip: the target's list put before the source's.
AssembleTargetFirst(f) ==
    [go_mf |-> f.tgt.go_mf \o f.src.go_mf,
     go_bp |-> f.tgt.go_bp \o f.src.go_bp,
     go_cc |-> f.tgt.go_cc \o f.src.go_cc,
     ulca_go_mf |-> f.ulca.mf, ulca_go_bp |-> f.ulca.bp, ulca_go_cc |-> f.ulca.cc,
     interpro |-> f.tgt.interpro \o f.src.interpro,
     pfam |-> f.tgt.pfam \o f.src.pfam,
     keywords |-> f.tgt.keywords \o f.src.keywords]

\* Lines 120-131: the feature dict.
Assemble(f) ==
    [go_mf |-> f.src.go_mf \o f.tgt.go_mf,
     go_bp |-> f.src.go_bp \o f.tgt.go_bp,
     go_cc |-> f.src.go_cc \o f.tgt.go_cc,
     ulca_go_mf |-> f.ulca.mf, ulca_go_bp |-> f.ulca.bp, ulca_go_cc |-> f.ulca.cc,
     interpro |-> f.src.interpro \o f.tgt.interpro,
     pfam |-> f.src.pfam \o f.tgt.pfam,
     keywords |-> f.src.keywords \o f.tgt.keywords]

\* Lines 120-132.
StepAssemble(f, e) ==
    [f |-> Finish(f, "features", Assemble(f)), e |-> e]

\* The statement a frame is at.
Step(f, e) ==
    CASE f.pc = "acquire" -> StepAcquire(f, e)
      [] f.pc = "check" -> StepCheck(f, e)
      [] f.pc = "parse" -> StepParse(f, e)
      [] f.pc = "induce" -> StepInduce(f, e)
      [] f.pc = "regroup" -> StepRegroup(f, e)
      [] f.pc = "assemble" -> StepAssemble(f, e)

\* A call run to its end with no other call in between.
RECURSIVE Run(_, _)
Run(f, e) ==
    IF f.pc = "done" THEN [f |-> f, e |-> e]
    ELSE LET n == Step(f, e) IN Run(n.f, n.e)

compute_interaction_features(source, target, dag, e) ==
    Run(NewFrame(source, target, dag), e)

(***************************************************************************)
(* The parser on its own: every string up to MaxLen over Alphabet.         *)
(***************************************************************************)

MaxLen == 5
\* Two letters, the separator, a space and a vertical tab (U+000B).
Alphabet == {"a", "b", " ", ",", ""}
Separators == {<<",">>, <<"b">>, <<",", ",">>}

RECURSIVE StringsUpTo(_)
StringsUpTo(n) ==
    IF n = 0
    THEN {<<>>}
    ELSE LET shorter == StringsUpTo(n - 1)
         IN shorter \cup {Append(s, c) : s \in {t \in shorter : Len(t) = n - 1},
                                          c \in Alphabet}

Pending == [none |-> FALSE, list |-> <<"pending">>]
NotRun == Raise("pending")

ParserIdle == raw = None /\ sep = <<",">> /\ parsed = Pending
InducerIdle == terms_a = <<>> /\ terms_b = <<>> /\ induced = NotRun

Workers == {"w1", "w2"}

\* Nothing kept yet.  between: a call with other arguments has run since.
NoMemo == [call |-> IdleFrame, between |-> FALSE]

ProcessInit ==
    /\ backing \in {"Missing", "S"}
    /\ active \in {"NotLoaded"} \cup ({backing} \ {"Missing"})
    /\ DAG = "None"
    /\ frame = [w \in Workers |-> IdleFrame]
    /\ memo = NoMemo

ProcessIdle ==
    /\ backing = "S" /\ active = "NotLoaded" /\ DAG = "None"
    /\ frame = [w \in Workers |-> IdleFrame]
    /\ memo = NoMemo

ParseInit ==
    /\ raw \in StringsUpTo(MaxLen) \cup {None}
    /\ sep \in Separators
    /\ parsed = Pending
    /\ InducerIdle /\ ProcessIdle

ParseCall ==
    /\ parsed = Pending
    /\ parsed' = _split_string(raw, sep)
    /\ UNCHANGED <<raw, sep, inducerVars, processVars>>

ParseNext == ParseCall

SpecParse == ParseInit /\ [][ParseNext]_vars

(***************************************************************************)
(* The inducer on its own, over the process-wide store: every pair of      *)
(* lists of up to MaxTerms accessions of the store.                        *)
(***************************************************************************)

MaxTerms == 2

RECURSIVE ListsUpTo(_, _)
ListsUpTo(S, n) ==
    IF n = 0
    THEN {<<>>}
    ELSE LET shorter == ListsUpTo(S, n - 1)
         IN shorter \cup {Append(s, x) : s \in {t \in shorter : Len(t) = n - 1},
                                          x \in S}

InduceInit ==
    /\ terms_a \in ListsUpTo(DOMAIN StoreS, MaxTerms)
    /\ terms_b \in ListsUpTo(DOMAIN StoreS, MaxTerms)
    /\ induced = NotRun
    /\ ParserIdle /\ ProcessIdle

InduceCall ==
    /\ induced = NotRun
    /\ induced' = get_up_to_lca(StoreS, terms_a, terms_b)
    /\ UNCHANGED <<terms_a, terms_b, parserVars, processVars>>

InduceNext == InduceCall

SpecInduce == InduceInit /\ [][InduceNext]_vars

(***************************************************************************)
(* One caller: calls of compute_interaction_features one after another,    *)
(* over every pair of proteins (or None) and every choice of dag.          *)
(***************************************************************************)

Arguments(ps) == (ps \cup {"None"}) \X (ps \cup {"None"}) \X (StoreNames \cup {"None"})

\* Worker w calls and the call runs to its end.
Call(w, source, target, dag) ==
    LET r == compute_interaction_features(source, target, dag, Env(active, backing, DAG))
    IN /\ frame' = [frame EXCEPT ![w] = r.f]
       /\ active' = r.e.active
       /\ DAG' = r.e.DAG
       /\ memo' = IF memo.call.pc = "done"
                       /\ <<source, target, dag>> #
                            <<memo.call.source, memo.call.target, memo.call.dagArg>>
                    THEN [memo EXCEPT !.between = TRUE]
                    ELSE memo
       /\ UNCHANGED <<backing, parserVars, inducerVars>>

Init == ProcessInit /\ ParserIdle /\ InducerIdle

Next == \E a \in Arguments(ProteinNames) : Call("w1", a[1], a[2], a[3])

Spec == Init /\ [][Next]_vars

(***************************************************************************)
(* One caller that keeps an earlier call's outcome to compare with.        *)
(***************************************************************************)

RepeatProteins == {"PA", "PB"}

Remember ==
    /\ frame["w1"].pc = "done"
    /\ memo' = [call |-> frame["w1"], between |-> FALSE]
    /\ UNCHANGED <<backing, active, DAG, frame, parserVars, inducerVars>>

RepeatNext ==
    \/ \E a \in Arguments(RepeatProteins) : Call("w1", a[1], a[2], a[3])
    \/ Remember

SpecRepeat == Init /\ [][RepeatNext]_vars

(***************************************************************************)
(* Several workers, each inside its own call, interleaved statement by     *)
(* statement, with no lock.                                                *)
(***************************************************************************)

SharedProteins == {"PA", "PK"}

Begin(w, source, target, dag) ==
    /\ frame[w].pc = "idle"
    /\ frame' = [frame EXCEPT ![w] = NewFrame(source, target, dag)]
    /\ UNCHANGED <<backing, active, DAG, memo, parserVars, inducerVars>>

Statement(w) ==
    /\ frame[w].pc \notin {"idle", "done"}
    /\ LET n == Step(frame[w], Env(active, backing, DAG))
       IN /\ frame' = [frame EXCEPT ![w] = n.f]
          /\ active' = n.e.active
          /\ DAG' = n.e.DAG
    /\ UNCHANGED <<backing, memo, parserVars, inducerVars>>

Return(w) ==
    /\ frame[w].pc = "done"
    /\ frame' = [frame EXCEPT ![w] = IdleFrame]
    /\ UNCHANGED <<backing, active, DAG, memo, parserVars, inducerVars>>

WorkersNext ==
    \E w \in Workers :
        \/ \E a \in Arguments(SharedProteins) : Begin(w, a[1], a[2], a[3])
        \/ Statement(w)
        \/ Return(w)

SpecWorkers == Init /\ [][WorkersNext]_vars

(***************************************************************************)
(* Properties.                                                             *)
(***************************************************************************)

Finished(f) == f.pc = "done"
BothGiven(f) == f.source # "None" /\ f.target # "None"

\* The store a call's own lookups go through: the one passed in, else the
\* process-wide one ("NotLoaded" when it could not be built).
StoreInUse(f) == IF f.dagArg # "None" THEN f.dagArg ELSE active

\* C1: a call with source or target None returns None and raises nothing,
\* whether or not the process-wide store can be acquired.
C1_NullInputReturnsNone ==
    \A w \in Workers :
        (Finished(frame[w]) /\ ~BothGiven(frame[w]))
            => frame[w].result.kind = "None"

\* The accessions written in the three GO fields of a protein.
GoTokens(p) == UNION {Range(ParseField(ProteinOf(p)[fld])) : fld \in GoFields}

\* C2: with both proteins given, a token of any of the six GO fields that the
\* store does not know makes the call raise the lookup's error: it returns
\* neither None nor a feature dict.
C2_UnknownTermPropagates ==
    \A w \in Workers :
        LET f == frame[w]
        IN (/\ Finished(f) /\ BothGiven(f)
            /\ StoreInUse(f) # "NotLoaded"
            /\ \E t \in GoTokens(f.source) \cup GoTokens(f.target) :
                   t \notin DOMAIN TermStore(StoreInUse(f)))
               => f.result.kind = "KeyError"

\* C2's case: the only unknown accession is in the last field looked up
\* (the target's go_cc), and the store is the process-wide one.
C2_Witness ==
    /\ Finished(frame["w1"])
    /\ frame["w1"].source = "PA" /\ frame["w1"].target = "PZ3"
    /\ frame["w1"].dagArg = "None"
    /\ frame["w1"].result.kind = "KeyError"

\* C3: a call that is handed a store never consults the process-wide
\* singleton.
C3_ExplicitStoreOnly ==
    \A w \in Workers :
        (Finished(frame[w]) /\ frame[w].dagArg # "None") => ~frame[w].consulted

\* The tokens of one raw field as the feature dict must list them.
ExpectedRaw(f, p, fld) ==
    LET tokens == ParseField(ProteinOf(p)[fld])
        store == TermStore(StoreInUse(f))
    IN IF fld \in GoFields
       THEN [i \in 1..Len(tokens) |-> store[tokens[i]].id]
       ELSE tokens

\* C4: every raw field of a returned feature dict is the source's parsed
\* tokens followed by the target's, in order and with repeats kept, the GO
\* tokens replaced by their canonical ids.
C4_RawFieldsConcatenate ==
    \A w \in Workers :
        LET f == frame[w]
        IN (Finished(f) /\ f.result.kind = "features")
               => \A fld \in RawFields :
                      f.result.features[fld] =
                          ExpectedRaw(f, f.source, fld) \o ExpectedRaw(f, f.target, fld)

\* C4's case: the alternate accession "k" resolved to "a", and the four
\* occurrences of "a" all kept.
C4_Witness ==
    /\ Finished(frame["w1"]) /\ frame["w1"].result.kind = "features"
    /\ frame["w1"].source = "PK" /\ frame["w1"].target = "PK"
    /\ frame["w1"].result.features.go_mf = << <<"a">>, <<"a">>, <<"a">>, <<"a">> >>
    /\ frame["w1"].result.features.keywords = << <<"w">>, <<"w">> >>

SameArguments(f, g) ==
    f.source = g.source /\ f.target = g.target /\ f.dagArg = g.dagArg

\* C5: two calls with the same source, target and dag that both return a
\* feature dict return the same one, whatever was called in between.
C5_Deterministic ==
    (/\ Finished(memo.call) /\ Finished(frame["w1"])
     /\ SameArguments(memo.call, frame["w1"])
     /\ memo.call.result.kind = "features" /\ frame["w1"].result.kind = "features")
        => memo.call.result = frame["w1"].result

\* C5's case: a call with the default store repeated after calls with other
\* arguments, its induced terms not empty.
C5_Witness ==
    /\ Finished(memo.call) /\ Finished(frame["w1"])
    /\ SameArguments(memo.call, frame["w1"])
    /\ memo.between
    /\ memo.call.dagArg = "None" /\ memo.call.source # memo.call.target
    /\ frame["w1"].result.kind = "features"
    /\ frame["w1"].result.features.ulca_go_mf # <<>>

\* C6: interleaved calls write neither the process-wide store, once built,
\* nor the module-level DAG, and each finished call has the outcome it has
\* when it runs alone in a fresh process.
C6_NoSharedWrites ==
    /\ [](\A w \in Workers :
            Finished(frame[w]) =>
                frame[w].result =
                    compute_interaction_features(
                        frame[w].source, frame[w].target, frame[w].dagArg,
                        Env("NotLoaded", backing, "None")).f.result)
    /\ [][/\ DAG' = DAG
          /\ backing' = backing
          /\ (active # "NotLoaded" => active' = active)]_vars

\* C6's case: one worker has returned a feature dict while the other is in
\* the middle of a call with another store.
C6_Witness ==
    /\ Finished(frame["w1"]) /\ frame["w1"].result.kind = "features"
    /\ frame["w1"].dagArg = "None"
    /\ frame["w2"].pc = "regroup" /\ frame["w2"].dagArg = "E"

UlcaNames == {"ulca_go_mf", "ulca_go_bp", "ulca_go_cc"}

\* C7: in a returned feature dict no accession occurs more than twice in
\* any of ulca_go_mf, ulca_go_bp, ulca_go_cc.
C7_UlcaCapped ==
    \A w \in Workers :
        LET f == frame[w]
        IN (Finished(f) /\ f.result.kind = "features")
               => \A k \in UlcaNames :
                      LET l == f.result.features[k]
                      IN \A i \in 1..Len(l) : CountIn(l, Len(l), l[i]) <= 2

\* s with sp between consecutive pieces.
RECURSIVE Join(_, _)
Join(pieces, sp) ==
    IF Len(pieces) = 1 THEN pieces[1]
    ELSE pieces[1] \o sp \o Join(Tail(pieces), sp)

\* t is p without a leading and a trailing run of whitespace, as long as
\* those runs can be.
IsTrimOf(t, p) ==
    /\ \E i \in 0..Len(p), j \in 0..Len(p) :
          /\ i + Len(t) + j = Len(p)
          /\ t = SubSeq(p, i + 1, i + Len(t))
          /\ \A n \in (1..i) \cup ((Len(p) - j + 1)..Len(p)) : p[n] \in Whitespace
    /\ t # <<>> => (t[1] \notin Whitespace /\ t[Len(t)] \notin Whitespace)

\* C8: _split_string returns None exactly for None and ""; otherwise the
\* pieces between the separators, each trimmed, the empty ones dropped, in
\* order and with repeats kept; whitespace is what str.strip() removes,
\* vertical tab, unit separator and no-break space included.
C8_ParserContract ==
    parsed # Pending =>
        /\ parsed.none <=> (raw = None \/ raw = <<>>)
        /\ ~parsed.none =>
             \E pieces \in {PySplit(raw, sep)} :
                LET kept == {i \in 1..Len(pieces) :
                                \E n \in 1..Len(pieces[i]) : pieces[i][n] \notin Whitespace}
                    nth(k) == CHOOSE i \in kept :
                                  Cardinality({j \in kept : j <= i}) = k
                IN /\ Join(pieces, sep) = raw
                   /\ \A i \in 1..Len(pieces) : Find(pieces[i], sep) = 0
                   /\ Len(parsed.list) = Cardinality(kept)
                   /\ \A k \in 1..Len(parsed.list) :
                          IsTrimOf(parsed.list[k], pieces[nth(k)])
        /\ _split_string(<<" ", "a", " ", ",", " ", ",", "b", ",", " ", " ">>, <<",">>)
               = SomeList(<< <<"a">>, <<"b">> >>)
        /\ _split_string(<<"", "a", "", ",", "\\xa0", "\t">>, <<",">>)
               = SomeList(<< <<"a">> >>)

\* C8's case: a string of separators and whitespace only gives the empty
\* list, not None.
C8_Witness ==
    /\ parsed # Pending
    /\ raw = <<" ", ",", " ">> /\ sep = <<",">>
    /\ parsed = SomeList(<<>>)

AllEmpty(p) == \A fld \in RawFields : ProteinOf(p)[fld] \in {None, <<>>}

\* C9: with both proteins given and all their fields None or "", a call
\* that has a store for its lookups (the one passed in, or the process-wide
\* one) returns a dict of exactly the nine feature names, each with an
\* empty list.
C9_EmptyAnnotations ==
    \A w \in Workers :
        LET f == frame[w]
        IN (/\ Finished(f) /\ BothGiven(f)
            /\ AllEmpty(f.source) /\ AllEmpty(f.target)
            /\ StoreInUse(f) # "NotLoaded")
               => /\ f.result.kind = "features"
                  /\ DOMAIN f.result.features = FeatureNames
                  /\ \A k \in FeatureNames : f.result.features[k] = <<>>

\* C10: the induction of {T} with {T}, T a term of the store, is exactly T.
C10_SelfInduction ==
    induced # NotRun =>
        \A t \in DOMAIN StoreS :
            (StoreS[t].id = t /\ Range(terms_a) = {t} /\ Range(terms_b) = {t})
                => induced = Ok(<<t>>)

\* C10's case: a term with ancestors, given twice in one of the lists.
C10_Witness ==
    /\ induced = Ok(<< <<"d">> >>)
    /\ terms_a = << <<"d">>, <<"d">> >> /\ terms_b = << <<"d">> >>

=============================================================================
